---- MODULE Spec2Model ----
(***************************************************************************)
(* scripts/build-ffmpeg.py: the audio-only FFmpeg bundle build.            *)
(*                                                                         *)
(* main() is a linear procedure: skip if the output tarball exists, set up *)
(* the builder, download and verify the source tarballs on a thread pool,  *)
(* build the tools, the codec libraries and FFmpeg one after the other,    *)
(* post-process the destination tree, strip the libraries and archive      *)
(* bin/include/lib.  The external helper (cibuildpkg: Builder, fetch, run, *)
(* get_platform) and the commands it runs are the environment: each call   *)
(* either returns or raises, and what it leaves on disk is chosen          *)
(* nondeterministically.  The file system outlives a run: a later run of   *)
(* the script starts from the files the earlier runs left.  output_dir and *)
(* the platform tag only name the path of the output tarball (lines        *)
(* 108-111); the model has the one file at that path.                      *)
(***************************************************************************)
EXTENDS Integers, Sequences, FiniteSets, TLC

VARIABLES
    plat,        \* platform.system(), fixed for the life of the machine
    pc,          \* position of the main thread in main()
    exc,         \* the exception propagating out of main: <<>> or <<[type, at]>>
    outTar,      \* output tarball: <<>> absent, <<[by, members, complete]>> present
    fs,          \* source/ directory: per package <<>> absent, <<c>> file of content c
    task,        \* per package, the state of its future in download_tars:
                 \* "none", "pending", "running", then "ok" or the exception
                 \* it raised
    yielded,     \* number of futures as_completed has handed to the loop of
                 \* line 91, each of them once and each with result "ok"
    fetched,     \* packages whose task called fetch() in this run
    faults,      \* fetches that did not deliver the upstream file, so far
    built,       \* builder.build calls of this run that returned, in order
    destTree,    \* dest_dir after the builds: [dirs, files]
    libraries,   \* main's local `libraries`: <<>> unbound, <<l>> bound to list l
    tarArgs,     \* <<>> or <<members>>: the member arguments tar was run with
    acts         \* kinds of external actions main has performed in this run

vars == <<plat, pc, exc, outTar, fs, task, yielded, fetched, faults, built,
          destTree, libraries, tarArgs, acts>>

(***************************************************************************)
(* Bounds of the model.                                                    *)
(***************************************************************************)
MaxFetchFaults == 1   \* fetches that fail or deliver a truncated file
NumCpus == 1          \* os.cpu_count() of the host

(***************************************************************************)
(* Platforms.  platform.system() returns "Linux", "Darwin", "Windows" or   *)
(* another name ("FreeBSD", "Java", ...); one other name stands for them.  *)
(***************************************************************************)
Platforms == {"Linux", "Darwin", "Windows", "FreeBSD"}

(***************************************************************************)
(* File contents and digests.  A file content is a small integer; content  *)
(* 0 is a truncated download.  calculate_sha256 reads the whole file and   *)
(* returns its digest; the digest function is injective on the contents of *)
(* the model, as SHA-256 is on the files of practice.                      *)
(***************************************************************************)
calculate_sha256(content) == (3 * content + 1) % 11

Truncated == 0

(***************************************************************************)
(* Package metadata.  `upstream` is the content served at source_url;      *)
(* `sha256` is the declared digest literal.                                *)
(***************************************************************************)
Package(n, up, sha, req) ==
    [name |-> n, upstream |-> up, sha256 |-> sha, requires |-> req]

\* faulty variant: opus left out of the group
audio_group_without_opus ==
    << Package("lame",   2, 7,  {}),
       Package("ogg",    3, 10, {}),
       Package("speex",  5, 5,  {}),
       Package("vorbis", 6, 8,  {"ogg"}) >>

\* faulty variant: vorbis listed before the ogg it requires
audio_group_vorbis_first ==
    << Package("lame",   2, 7,  {}),
       Package("vorbis", 6, 8,  {"ogg"}),
       Package("ogg",    3, 10, {}),
       Package("opus",   4, 2,  {}),
       Package("speex",  5, 5,  {}) >>

audio_group ==
    << Package("lame",   2, 7,  {}),
       Package("ogg",    3, 10, {}),
       Package("opus",   4, 2,  {}),
       Package("speex",  5, 5,  {}),
       Package("vorbis", 6, 8,  {"ogg"}) >>

ffmpeg_package == Package("ffmpeg", 7, 0, {})

gperf_package == Package("gperf", 1, 4, {})

\* line 119-121: gperf counts as available on Windows only
available_tools(p) == IF p = "Windows" THEN {"gperf"} ELSE {}

\* line 129-137
build_tools(p) ==
    IF "gperf" \notin available_tools(p) THEN <<gperf_package>> ELSE <<>>

\* faulty variant: FFmpeg put in front of the libraries it links
packages_ffmpeg_first == <<ffmpeg_package>> \o audio_group

\* line 327-329
packages == audio_group \o <<ffmpeg_package>>

\* line 331: the argument of download_tars
download_list(p) == build_tools(p) \o packages

\* line 333-337: the builder.build calls, in order
build_calls(p) ==
    [i \in 1..Len(build_tools(p)) |->
        [name |-> build_tools(p)[i].name, for_builder |-> TRUE]]
    \o
    [i \in 1..Len(packages) |->
        [name |-> packages[i].name, for_builder |-> FALSE]]

PackageNames ==
    {gperf_package.name, ffmpeg_package.name}
        \cup {audio_group[i].name : i \in 1..Len(audio_group)}

SeqNames(s) == {s[i].name : i \in 1..Len(s)}

PackageOf(n) ==
    CHOOSE q \in {gperf_package, ffmpeg_package}
                     \cup {audio_group[i] : i \in 1..Len(audio_group)} : q.name = n

\* os.path.exists on a file slot
exists(f) == f # <<>>

\* faulty variant: the existence check left out
output_tarball_unchecked == FALSE

\* faulty variant: the existence check inverted
output_tarball_absent == ~exists(outTar)

\* line 113
output_tarball_exists == exists(outTar)

\* ThreadPoolExecutor() default: min(32, cpu_count + 4) worker threads
max_workers == IF NumCpus + 4 < 32 THEN NumCpus + 4 ELSE 32

(***************************************************************************)
(* download_and_verify_package, lines 66-82, as a function of the tarball  *)
(* slot and of what fetch does when it is called: `o.file` is what fetch   *)
(* leaves at the path (<<>> nothing, <<Truncated>> or <<upstream>>) and    *)
(* `o.raises` tells whether the command failed (CalledProcessError).       *)
(***************************************************************************)
\* faulty variant: the tarball is fetched whether it is there or not
calls_fetch_always(file) == TRUE

\* line 71: fetch is called only when the tarball is absent
calls_fetch(file) == ~exists(file)

\* lines 71-73: the file at the path after the optional fetch
after_fetch(file, o) == IF calls_fetch(file) THEN o.file ELSE file

\* line 73: the exception fetch raises in this call, "none" when it
\* returns or is not called
fetch_raises(file, o) ==
    IF calls_fetch(file) /\ o.raises THEN "CalledProcessError" ELSE "none"

\* line 74: the except clause
caught == {"CalledProcessError"}

\* lines 72-75: the exception that leaves the try statement
propagates(file, o) ==
    IF fetch_raises(file, o) \in caught THEN "none" ELSE fetch_raises(file, o)

\* faulty variant: the digest comparison left out
verify_presence_only(pkg, file) ==
    IF ~exists(file) THEN "ValueError" ELSE "ok"

\* lines 76-82: "ok" when the function returns, else the exception raised
verify(pkg, file) ==
    IF ~exists(file) THEN "ValueError"
    ELSE IF pkg.sha256 = calculate_sha256(file[1]) THEN "ok"
    ELSE "ValueError"

\* lines 66-82: the file left at the path and how the call ends
download_and_verify_package(pkg, file, o) ==
    IF propagates(file, o) # "none"
      THEN [file |-> after_fetch(file, o), result |-> propagates(file, o)]
      ELSE [file |-> after_fetch(file, o),
            result |-> verify(pkg, after_fetch(file, o))]

Exceptions == {"ValueError", "CalledProcessError"}

\* what a call of fetch may do: fail leaving nothing or a partial file,
\* return having written a wrong file, or return having written the release
FetchOutcomes(pkg) ==
    { [file |-> <<>>,             raises |-> TRUE],
      [file |-> <<Truncated>>,    raises |-> TRUE],
      [file |-> <<Truncated>>,    raises |-> FALSE],
      [file |-> <<pkg.upstream>>, raises |-> FALSE] }

IsFault(pkg, o) == o.raises \/ o.file # <<pkg.upstream>>

(***************************************************************************)
(* Destination tree: which of bin, include, lib exist under dest_dir and   *)
(* which of the files the script looks at are there.                       *)
(***************************************************************************)
Dirs == <<"bin", "include", "lib">>

DirSet == {Dirs[i] : i \in 1..Len(Dirs)}

Files == { [dir |-> "lib", name |-> "libavcodec.so"],
           [dir |-> "lib", name |-> "libavcodec.dylib"],
           [dir |-> "bin", name |-> "avcodec.dll"],
           [dir |-> "bin", name |-> "avcodec.lib"] }

DestTrees ==
    { t \in [dirs : SUBSET DirSet, files : SUBSET Files] :
        \A f \in t.files : f.dir \in t.dirs }

EmptyTree == [dirs |-> {}, files |-> {}]

(***************************************************************************)
(* State after the interpreter has loaded the module and parsed the        *)
(* arguments (lines 100-111).  The output tarball may have been left by an *)
(* invocation before the first one of the behaviour.                       *)
(***************************************************************************)
NoTask == [n \in PackageNames |-> "none"]

Init ==
    /\ plat \in Platforms
    /\ pc = "start"
    /\ exc = <<>>
    /\ outTar \in {<<>>, <<[by |-> "earlier", members |-> Dirs, complete |-> TRUE]>>}
    /\ fs = [n \in PackageNames |-> <<>>]
    /\ task = NoTask
    /\ yielded = 0
    /\ fetched = {}
    /\ faults = 0
    /\ built = <<>>
    /\ destTree = EmptyTree
    /\ libraries = <<>>
    /\ tarArgs = <<>>
    /\ acts = {}

\* an exception leaves main(): nothing below the raising statement runs
Raise(type, at) ==
    /\ pc' = "raised"
    /\ exc' = <<[type |-> type, at |-> at]>>

Did(kind) == acts' = acts \cup {kind}

(***************************************************************************)
(* main, lines 113-127                                                     *)
(***************************************************************************)
\* lines 113-114: skip the whole run when the output tarball exists
CheckOutput ==
    /\ pc = "start"
    /\ pc' = IF output_tarball_exists THEN "returned" ELSE "create_directories"
    /\ UNCHANGED <<plat, exc, outTar, fs, task, yielded, fetched, faults, built,
                   destTree, libraries, tarArgs, acts>>

\* lines 116-117
CreateDirectories ==
    /\ pc = "create_directories"
    /\ Did("create_directories")
    /\ \/ /\ pc' = IF plat = "Windows" THEN "where_tools" ELSE "pip_install"
          /\ exc' = exc
       \/ Raise("OSError", "create_directories")
    /\ UNCHANGED <<plat, outTar, fs, task, yielded, fetched, faults, built,
                   destTree, libraries, tarArgs>>

\* lines 120-123: Windows only
WhereTools ==
    /\ pc = "where_tools"
    /\ Did("where")
    /\ \/ /\ pc' = "pip_install"
          /\ exc' = exc
       \/ Raise("CalledProcessError", "where_tools")
    /\ UNCHANGED <<plat, outTar, fs, task, yielded, fetched, faults, built,
                   destTree, libraries, tarArgs>>

\* lines 126-127
PipInstall ==
    /\ pc = "pip_install"
    /\ Did("pip_install")
    /\ \/ /\ pc' = "submit"
          /\ exc' = exc
       \/ Raise("CalledProcessError", "pip_install")
    /\ UNCHANGED <<plat, outTar, fs, task, yielded, fetched, faults, built,
                   destTree, libraries, tarArgs>>

(***************************************************************************)
(* download_tars, lines 85-97, called at line 331                          *)
(***************************************************************************)
Listed == SeqNames(download_list(plat))

Unsubmitted == {i \in 1..Len(download_list(plat)) :
                    task[download_list(plat)[i].name] = "none"}

Pending == {i \in 1..Len(download_list(plat)) :
                    task[download_list(plat)[i].name] = "pending"}

Running == {n \in PackageNames : task[n] = "running"}

Min(S) == CHOOSE i \in S : \A j \in S : i <= j

\* faulty variant: the executor shut down without joining its workers
shutdown_nowait == TRUE

\* Executor.__exit__ is shutdown(wait=True): it joins the worker threads,
\* which first drain the queue
shutdown_wait == \A n \in PackageNames : task[n] \notin {"pending", "running"}

\* lines 87-90: executor.submit for the next package of the list; the work
\* item is taken at once by an idle or newly spawned worker thread, and is
\* queued when max_workers threads are busy
Submit ==
    /\ pc = "submit"
    /\ Unsubmitted # {}
    /\ LET i == Min(Unsubmitted)
       IN  /\ task' = [task EXCEPT ![download_list(plat)[i].name] =
                         IF Cardinality(Running) < max_workers
                           THEN "running" ELSE "pending"]
           /\ pc' = IF Unsubmitted = {i} THEN "as_completed" ELSE "submit"
    /\ Did("download")
    /\ UNCHANGED <<plat, exc, outTar, yielded, fetched, fs, faults, built,
                   destTree, libraries, tarArgs>>

\* the worker that finished package n takes the oldest queued work item
next_item(t) ==
    IF Pending = {} THEN t
    ELSE [t EXCEPT ![download_list(plat)[Min(Pending)].name] = "running"]

\* lines 66-82: a worker runs download_and_verify_package(package)
TaskRun(n) ==
    /\ task[n] = "running"
    /\ LET pkg == PackageOf(n)
       IN \E o \in FetchOutcomes(pkg) :
            /\ IF calls_fetch(fs[n])
                 THEN IsFault(pkg, o) => faults < MaxFetchFaults
                 ELSE ~IsFault(pkg, o)
            /\ fs' = [fs EXCEPT ![n] = download_and_verify_package(pkg, fs[n], o).file]
            /\ task' = next_item([task EXCEPT ![n] =
                          download_and_verify_package(pkg, fs[n], o).result])
            /\ fetched' = IF calls_fetch(fs[n]) THEN fetched \cup {n} ELSE fetched
            /\ faults' = IF calls_fetch(fs[n]) /\ IsFault(pkg, o)
                           THEN faults + 1 ELSE faults
    /\ UNCHANGED <<plat, pc, exc, outTar, yielded, built, destTree, libraries,
                   tarArgs, acts>>

\* lines 91-94: as_completed yields a finished future not yielded before,
\* and its result() returns
YieldOk ==
    /\ pc = "as_completed"
    /\ yielded < Cardinality({m \in Listed : task[m] = "ok"})
    /\ yielded' = yielded + 1
    /\ UNCHANGED <<plat, pc, exc, outTar, fs, task, fetched, faults, built,
                   destTree, libraries, tarArgs, acts>>

\* lines 94-97: result() re-raises the task's exception, which is re-raised;
\* the generator of as_completed is closed
YieldErr(n) ==
    /\ pc = "as_completed"
    /\ task[n] \in Exceptions
    /\ pc' = "dl_raise"
    /\ exc' = <<[type |-> task[n], at |-> "download_tars"]>>
    /\ yielded' = 0
    /\ UNCHANGED <<plat, outTar, fs, task, fetched, faults, built,
                   destTree, libraries, tarArgs, acts>>

\* the loop is exhausted, the with block exits, download_tars returns
DownloadReturn ==
    /\ pc = "as_completed"
    /\ yielded = Len(download_list(plat))
    /\ shutdown_wait
    /\ pc' = "build"
    /\ yielded' = 0
    /\ UNCHANGED <<plat, exc, outTar, fs, task, fetched, faults, built,
                   destTree, libraries, tarArgs, acts>>

\* the exception leaves the with block and then main
DownloadRaise ==
    /\ pc = "dl_raise"
    /\ shutdown_wait
    /\ pc' = "raised"
    /\ UNCHANGED <<plat, exc, outTar, fs, task, yielded, fetched, faults, built,
                   destTree, libraries, tarArgs, acts>>

(***************************************************************************)
(* main, lines 333-337: the builds, one call after the other               *)
(***************************************************************************)
\* builder.build(tool, for_builder=True) / builder.build(package): the
\* external builder installs into dest_dir and returns, or raises
Build ==
    /\ pc = "build"
    /\ Len(built) < Len(build_calls(plat))
    /\ Did("build")
    /\ LET call == build_calls(plat)[Len(built) + 1]
       IN \/ /\ built' = Append(built, call)
             /\ destTree' \in DestTrees
             /\ pc' = IF Len(built) + 1 = Len(build_calls(plat))
                        THEN "windows_fix" ELSE "build"
             /\ exc' = exc
          \/ /\ Raise("BuildError", "build")
             /\ UNCHANGED <<built, destTree>>
    /\ UNCHANGED <<plat, outTar, fs, task, yielded, fetched, faults, libraries,
                   tarArgs>>

(***************************************************************************)
(* main, lines 339-360: Windows DLL fixes                                  *)
(***************************************************************************)
ImportLib == [dir |-> "bin", name |-> "avcodec.lib"]

MingwDll == [dir |-> "bin", name |-> "libgcc_s_seh-1.dll"]

\* lines 341-349: bin/<name>.lib is moved to lib
move_libs(t) ==
    IF ImportLib \in t.files
      THEN [dirs  |-> t.dirs \cup {"lib"},
            files |-> (t.files \ {ImportLib})
                        \cup {[dir |-> "lib", name |-> ImportLib.name]}]
      ELSE t

\* lines 350-360: the MinGW runtime DLLs found next to gcc are copied to
\* bin; any exception in the block is swallowed
MingwCopies(t) ==
    {t} \cup (IF "bin" \in t.dirs
                THEN {[t EXCEPT !.files = @ \cup {MingwDll}]} ELSE {})

WindowsFix ==
    /\ pc = "windows_fix"
    /\ IF plat = "Windows"
         THEN /\ Did("post_process")
              /\ \/ /\ destTree' \in MingwCopies(move_libs(destTree))
                    /\ pc' = "glob"
                    /\ exc' = exc
                 \/ /\ ImportLib \in destTree.files
                    /\ Raise("OSError", "windows_fix")
                    /\ UNCHANGED destTree
         ELSE /\ pc' = "glob"
              /\ UNCHANGED <<exc, destTree, acts>>
    /\ UNCHANGED <<plat, outTar, fs, task, yielded, fetched, faults, built,
                   libraries, tarArgs>>

(***************************************************************************)
(* main, lines 362-378: strip                                              *)
(***************************************************************************)
Suffix(name, k) == SubSeq(name, Len(name) - k + 1, Len(name))

\* glob.glob(os.path.join(dest_dir, dir, "*" + ext))
glob(t, dir, ext) ==
    {f \in t.files : f.dir = dir /\ Len(f.name) >= Len(ext)
                        /\ Suffix(f.name, Len(ext)) = ext}

\* lines 363-368: no branch binds `libraries` on any other platform
Glob ==
    /\ pc = "glob"
    /\ libraries' =
         IF plat = "Darwin" THEN <<glob(destTree, "lib", ".dylib")>>
         ELSE IF plat = "Linux" THEN <<glob(destTree, "lib", ".so")>>
         ELSE IF plat = "Windows" THEN <<glob(destTree, "bin", ".dll")>>
         ELSE libraries
    /\ pc' = "strip"
    /\ UNCHANGED <<plat, exc, outTar, fs, task, yielded, fetched, faults, built,
                   destTree, tarArgs, acts>>

\* lines 370-378: reading the unbound local raises UnboundLocalError; strip
\* runs only on a non-empty list; a failing otool is swallowed
Strip ==
    /\ pc = "strip"
    /\ IF libraries = <<>>
         THEN /\ Raise("UnboundLocalError", "strip")
              /\ acts' = acts
         ELSE IF libraries[1] # {}
           THEN /\ Did("strip")
                /\ \/ /\ pc' = "archive"
                      /\ exc' = exc
                   \/ Raise("CalledProcessError", "strip")
           ELSE /\ pc' = "archive"
                /\ UNCHANGED <<exc, acts>>
    /\ UNCHANGED <<plat, outTar, fs, task, yielded, fetched, faults, built,
                   destTree, libraries, tarArgs>>

(***************************************************************************)
(* main, lines 380-389: archive                                            *)
(***************************************************************************)
\* faulty variant: the existence test of lines 386-387 left out
dirs_to_archive_unfiltered(t) == Dirs

\* lines 384-387
dirs_to_archive(t) == SelectSeq(Dirs, LAMBDA d : d \in t.dirs)

\* line 381 and line 389: makedirs, then tar czvf output_tarball -C dest_dir
\* <members>; a failing tar may leave a partial file behind
Archive ==
    /\ pc = "archive"
    /\ Did("archive")
    /\ \/ /\ Raise("OSError", "makedirs")
          /\ UNCHANGED <<outTar, tarArgs>>
       \/ /\ tarArgs' = <<dirs_to_archive(destTree)>>
          /\ \/ /\ outTar' = <<[by |-> "main", members |-> dirs_to_archive(destTree),
                                complete |-> TRUE]>>
                /\ pc' = "done"
                /\ exc' = exc
             \/ /\ outTar' \in {outTar,
                                <<[by |-> "main", members |-> dirs_to_archive(destTree),
                                   complete |-> FALSE]>>}
                /\ Raise("CalledProcessError", "tar")
    /\ UNCHANGED <<plat, fs, task, yielded, fetched, faults, built, destTree,
                   libraries>>

(***************************************************************************)
(* The script is invoked again: a new process on the same file system.     *)
(* The destination tree is not read before the builds have rewritten it.   *)
(***************************************************************************)
Terminated == pc \in {"returned", "done", "raised"}

Restart ==
    /\ Terminated
    /\ pc' = "start"
    /\ exc' = <<>>
    /\ task' = NoTask
    /\ yielded' = 0
    /\ fetched' = {}
    /\ built' = <<>>
    /\ destTree' = EmptyTree
    /\ libraries' = <<>>
    /\ tarArgs' = <<>>
    /\ acts' = {}
    /\ UNCHANGED <<plat, outTar, fs, faults>>

Next ==
    \/ CheckOutput
    \/ CreateDirectories
    \/ WhereTools
    \/ PipInstall
    \/ Submit
    \/ \E n \in PackageNames : TaskRun(n)
    \/ YieldOk
    \/ \E n \in PackageNames : YieldErr(n)
    \/ DownloadReturn
    \/ DownloadRaise
    \/ Build
    \/ WindowsFix
    \/ Glob
    \/ Strip
    \/ Archive
    \/ Restart

Spec == Init /\ [][Next]_vars

(***************************************************************************)
(* Vocabulary of the properties                                            *)
(***************************************************************************)
\* the tarball of package n is in source/ and has the declared digest
Good(n) == exists(fs[n]) /\ calculate_sha256(fs[n][1]) = PackageOf(n).sha256

\* the task of package n returned normally
Verified(n) == task[n] = "ok"

Finished(n) == task[n] \in {"ok"} \cup Exceptions

BuiltNames == {built[i].name : i \in 1..Len(built)}

CodecNames == {"lame", "ogg", "opus", "speex", "vorbis"}

\* download_tars has returned to main
DlReturned ==
    \/ pc \in {"build", "windows_fix", "glob", "strip", "archive", "done"}
    \/ pc = "raised" /\ exc[1].at \in {"build", "windows_fix", "strip", "makedirs", "tar"}

\* download_tars has raised
DlRaised == pc = "raised" /\ exc[1].at = "download_tars"

\* builder.build has been called in this run, or is the next statement
BuildCalled == pc = "build" \/ "build" \in acts

\* tar has been run in this run
TarInvoked == tarArgs # <<>>

Rank(d) == CHOOSE i \in 1..Len(Dirs) : Dirs[i] = d

(***************************************************************************)
(* C1: when the output tarball exists at the start of main, main returns   *)
(* at once: the step from the start goes to the return and changes         *)
(* nothing, and a returned run has created no directory, installed         *)
(* nothing, submitted no download, verified nothing, built nothing, not    *)
(* post-processed, not stripped and not run tar; the tarball is the one    *)
(* that was there.                                                         *)
(***************************************************************************)
C1_SkipWhenTarballExists ==
    /\ [][ (pc = "start" /\ exists(outTar)) =>
             /\ pc' = "returned"
             /\ UNCHANGED <<plat, exc, outTar, fs, task, yielded, fetched, faults, built,
                            destTree, libraries, tarArgs, acts>> ]_vars
    /\ [][ exists(outTar) => outTar' = outTar ]_vars
    /\ [](pc = "returned" =>
             /\ exists(outTar)
             /\ acts = {} /\ task = NoTask /\ yielded = 0 /\ fetched = {} /\ built = <<>>
             /\ libraries = <<>> /\ tarArgs = <<>> /\ exc = <<>>)

\* a run skipped because an earlier run of the script wrote the tarball
C1_Witness ==
    pc = "returned" /\ exists(outTar) /\ outTar[1].by = "main" /\ outTar[1].complete

(***************************************************************************)
(* C2: builder.build is called only when every package given to            *)
(* download_tars has been verified: its task returned normally and its     *)
(* tarball is in source/ with the declared SHA-256.                        *)
(***************************************************************************)
C2_VerifiedBeforeBuild ==
    BuildCalled => \A n \in Listed : Verified(n) /\ Good(n)

C2_Witness == pc = "build" /\ Len(built) = 3 /\ fetched = Listed

(***************************************************************************)
(* C3: the builds of a run are in the order tools, codec libraries,        *)
(* FFmpeg: no package is built twice, a for_builder build never follows an *)
(* ordinary one, only gperf is built for the builder and never on Windows, *)
(* FFmpeg comes after every codec library and nothing is built after it,   *)
(* and once the builds are over each package has been built exactly once.  *)
(***************************************************************************)
C3_BuildOrder ==
    /\ \A i, j \in 1..Len(built) : i < j =>
          /\ built[i].name # built[j].name
          /\ ~(built[j].for_builder /\ ~built[i].for_builder)
    /\ \A i \in 1..Len(built) :
          /\ built[i].for_builder <=> built[i].name = "gperf"
          /\ built[i].name = "gperf" => plat # "Windows"
          /\ built[i].name = "ffmpeg" =>
                /\ i = Len(built)
                /\ CodecNames \subseteq {built[j].name : j \in 1..(i - 1)}
          /\ built[i].name \in CodecNames /\ plat # "Windows" =>
                \E j \in 1..(i - 1) : built[j].name = "gperf"
    /\ pc \in {"windows_fix", "glob", "strip", "archive", "done"} =>
          /\ BuiltNames = CodecNames \cup {"ffmpeg"}
                            \cup (IF plat = "Windows" THEN {} ELSE {"gperf"})
          /\ Len(built) = Cardinality(BuiltNames)

C3_Witness == pc = "done" /\ plat = "Linux" /\ Len(built) = 7

(***************************************************************************)
(* C4: tar is run only after every build has returned and the Windows      *)
(* fixes and the strip step are over; its members are the directories      *)
(* among bin, include, lib that exist under dest_dir, each once, in that   *)
(* order; after tar nothing on disk changes in that run.                   *)
(***************************************************************************)
C4_ArchiveLast ==
    /\ [](TarInvoked =>
            /\ Len(built) = Len(build_calls(plat))
            /\ plat = "Windows" => "post_process" \in acts
            /\ libraries # <<>>
            /\ libraries[1] # {} => "strip" \in acts
            /\ LET m == tarArgs[1]
               IN /\ {m[i] : i \in 1..Len(m)} = destTree.dirs \cap {"bin", "include", "lib"}
                  /\ \A i, j \in 1..Len(m) : i < j => Rank(m[i]) < Rank(m[j]))
    /\ [][ TarInvoked /\ tarArgs' # <<>> => UNCHANGED <<fs, outTar, destTree>> ]_vars
    /\ [][ tarArgs' # tarArgs /\ tarArgs' # <<>> => pc = "archive" /\ pc' \in {"done", "raised"} ]_vars

C4_Witness ==
    /\ pc = "done" /\ plat = "Windows"
    /\ tarArgs = << <<"bin", "lib">> >>
    /\ libraries[1] # {}

(***************************************************************************)
(* C5: when download_tars has returned or raised, every package of its     *)
(* argument was submitted and its task has terminated (none queued, none   *)
(* running); it has returned exactly when every task verified its tarball  *)
(* and raised exactly when some task failed.                               *)
(***************************************************************************)
C5_PoolJoined ==
    /\ (DlReturned \/ DlRaised) => \A n \in Listed : Finished(n)
    /\ DlReturned => \A n \in Listed : Verified(n) /\ Good(n)
    /\ DlRaised => \E n \in Listed : task[n] \in Exceptions /\ ~Good(n)
    /\ \A n \in PackageNames \ Listed : task[n] = "none"

\* download_tars raised after one task failed and all the others succeeded
C5_Witness ==
    /\ DlRaised
    /\ Cardinality({n \in Listed : task[n] = "ok"}) = Len(download_list(plat)) - 1

(***************************************************************************)
(* C6 as stated: when tar is run, FFmpeg and opus, lame, ogg, vorbis,      *)
(* speex, twolame, opencore-amr and fdk-aac have been verified and built.  *)
(***************************************************************************)
StatedCodecs ==
    {"opus", "lame", "ogg", "vorbis", "speex", "twolame", "opencore-amr", "fdk-aac"}

C6_AllStatedCodecsBuilt ==
    TarInvoked =>
        \A n \in StatedCodecs \cup {"ffmpeg"} :
            /\ n \in PackageNames
            /\ n \in BuiltNames
            /\ Verified(n)

(***************************************************************************)
(* C6 amended: when tar is run, FFmpeg and lame, ogg, opus, speex and      *)
(* vorbis have each been verified and built; twolame, opencore-amr and     *)
(* fdk-aac are no packages of the script and are never downloaded or       *)
(* built.                                                                  *)
(***************************************************************************)
C6_AudioGroupBuilt ==
    /\ TarInvoked =>
          \A n \in CodecNames \cup {"ffmpeg"} :
              n \in Listed /\ Verified(n) /\ Good(n) /\ n \in BuiltNames
    /\ (StatedCodecs \ CodecNames) \cap (PackageNames \cup BuiltNames \cup fetched) = {}

C6_Witness ==
    /\ pc = "done" /\ exists(outTar) /\ outTar[1].complete
    /\ BuiltNames = CodecNames \cup {"ffmpeg", "gperf"}

(***************************************************************************)
(* C7: download_and_verify_package calls fetch only when the tarball is    *)
(* absent; a file that is present is never deleted or replaced; whatever   *)
(* fetch did, the task returns exactly when the tarball is present with    *)
(* the declared digest and raises ValueError otherwise; so while a tarball *)
(* with a wrong digest is in source/, no run gets past download_tars, and  *)
(* no run fetches it again.                                                *)
(***************************************************************************)
C7_FetchOnlyWhenAbsent ==
    /\ [][ \A n \in PackageNames :
             /\ exists(fs[n]) => fs'[n] = fs[n]
             /\ (n \in fetched' /\ n \notin fetched) => ~exists(fs[n]) ]_vars
    /\ [](\A n \in PackageNames :
             /\ Verified(n) => Good(n)
             /\ task[n] \in Exceptions => ~Good(n) /\ task[n] = "ValueError"
             /\ Finished(n) /\ Good(n) => Verified(n))
    /\ [](\A n \in Listed :
             exists(fs[n]) /\ ~Good(n) => ~DlReturned)
    /\ [](pc \in {"dl_raise", "raised"} /\ exc # <<>> /\ exc[1].at = "download_tars"
             => exc[1].type = "ValueError")

\* a later run fails on a truncated tarball it did not download
C7_Witness ==
    /\ DlRaised
    /\ \E n \in Listed :
          fs[n] = <<Truncated>> /\ task[n] = "ValueError" /\ n \notin fetched

(***************************************************************************)
(* C8: when a package is built, every package its requires list names is   *)
(* a package of the same run and has been built before it.                 *)
(***************************************************************************)
C8_RequiresBuiltFirst ==
    \A i \in 1..Len(built) :
        \A r \in PackageOf(built[i].name).requires :
            /\ r \in Listed
            /\ \E j \in 1..(i - 1) : built[j].name = r

C8_Witness == \E i \in 1..Len(built) : built[i].name = "vorbis"

(***************************************************************************)
(* C9: the output tarball comes into existence only in the archive step of *)
(* a run in which every package was verified and built; a run that raised  *)
(* before tar was run leaves no output tarball, and a run that starts      *)
(* without one does not skip.                                              *)
(***************************************************************************)
C9_TarballOnlyAfterFullRun ==
    /\ [][ ~exists(outTar) /\ exists(outTar') =>
             /\ pc = "archive"
             /\ Len(built) = Len(build_calls(plat))
             /\ \A n \in Listed : Verified(n) /\ Good(n) /\ n \in BuiltNames ]_vars
    /\ [](pc = "raised" /\ exc[1].at # "tar" => ~exists(outTar))
    /\ [][ pc = "start" /\ ~exists(outTar) => pc' = "create_directories" ]_vars

\* a run that failed in a build is followed by a run that does the work again
C9_Witness ==
    /\ pc = "build" /\ ~exists(outTar) /\ fetched = {}
    /\ \A n \in Listed : Good(n)

(***************************************************************************)
(* C10 as stated: on every platform a run whose builds all returned ends   *)
(* only by archiving or by the failure of an external command; strip runs  *)
(* only on a non-empty list of libraries.                                  *)
(***************************************************************************)
C10_EveryPlatformArchives ==
    /\ (pc = "raised" /\ Len(built) = Len(build_calls(plat))) =>
          /\ exc[1].at \in {"windows_fix", "strip", "makedirs", "tar"}
          /\ exc[1].type \in {"CalledProcessError", "OSError"}
    /\ "strip" \in acts => libraries # <<>> /\ libraries[1] # {}

====
